---- MODULE Spec2Model ----
(***************************************************************************)
(* A model of bee-queue's Job (lib/job.js): the client-side job object,    *)
(* its configuration setters, and its asynchronous operations against the  *)
(* shared store (save, retry, remove, reportProgress, isInSet).            *)
(*                                                                         *)
(* Representation.  A JavaScript value that may be undefined/null is a     *)
(* sequence of length at most one: None is <<>>, Some(v) is <<v>>.  A      *)
(* string is a sequence of one-character strings, so 'r:5:a' is            *)
(* <<"r", ":", "5", ":", "a">> and '' is <<>> (inside Some).               *)
(*                                                                         *)
(* Client code is single-threaded JavaScript: a synchronous call, and each *)
(* promise callback, is one atomic action.  The store executes each script *)
(* or MULTI/EXEC transaction as one atomic action.  Between the two, a     *)
(* request is in flight in pending[j].                                     *)
(***************************************************************************)
EXTENDS Integers, Sequences, FiniteSets

\* ---------------------------------------------------------------- bounds
MaxJobs == 2        \* Job objects held by the client
MaxNow == 2         \* the clock runs from 1 to MaxNow
MaxCalls == 2       \* public method calls made in one behaviour
MaxPending == 1     \* requests one Job may have in flight at once

\* ------------------------------------------------------- optional values
None == <<>>
Some(v) == <<v>>
IsSome(o) == o # <<>>
Get(o) == o[1]

JobIds == 1..MaxJobs

\* ---------------------------------------------------------------- strings
Digit(d) == CASE d = 0 -> "0" [] d = 1 -> "1" [] d = 2 -> "2" [] d = 3 -> "3"
              [] d = 4 -> "4" [] d = 5 -> "5" [] d = 6 -> "6" [] d = 7 -> "7"
              [] d = 8 -> "8" [] d = 9 -> "9"

Digits == {"0", "1", "2", "3", "4", "5", "6", "7", "8", "9"}

\* String(n) for a non-negative safe integer: its decimal digits.
RECURSIVE DecimalString(_)
DecimalString(n) == IF n < 10 THEN <<Digit(n)>>
                    ELSE Append(DecimalString(n \div 10), Digit(n % 10))

\* s.substr(0, 2) === 'r:'
HasReservedPrefix(s) == Len(s) >= 2 /\ s[1] = "r" /\ s[2] = ":"

\* s.indexOf(':') >= 0
HasColon(s) == \E i \in 1..Len(s) : s[i] = ":"

\* JavaScript truthiness of an optional string / optional number.
TruthyStr(o) == IsSome(o) /\ Get(o) # <<>>
TruthyNum(o) == IsSome(o) /\ Get(o) # 0

\* x || ''
OrEmpty(o) == IF TruthyStr(o) THEN Get(o) ELSE <<>>

VARIABLES
  now,        \* Date.now()
  settings,   \* queue.settings
  job,        \* the Job objects: job[j] is one instance
  pending,    \* pending[j]: the requests of job j that are in flight
  store,      \* the shared store: the keys id, jobs, waiting, delayed, failed, events
  queueJobs,  \* queue.jobs, the id -> Job map
  scheduled,  \* the instants queue._delayedTimer.schedule was called with
  outcome,    \* outcome[j]: how the promise of job j that settled last ended
  calls       \* number of public method calls made so far

vars == <<now, settings, job, pending, store, queueJobs, scheduled, outcome, calls>>

\* ------------------------------------------------------------ inputs
\* Identifiers a caller passes to setId: plain, reserved, plain with a colon.
IdInputs == {<<"a">>, <<"r", ":", "a">>, <<"a", ":", "b">>}

\* Arguments of setInterval.  A number is Some(n), NaN is None; a string is
\* the text of an integer mantissa followed by one unit character ('1s').
IntervalInputs ==
  { [isString |-> FALSE, n |-> Some(5), unit |-> ""],
    [isString |-> FALSE, n |-> Some(0), unit |-> ""],
    [isString |-> TRUE,  n |-> Some(1), unit |-> "s"],
    [isString |-> TRUE,  n |-> Some(5), unit |-> "x"] }

RetriesInputs == {-1, 3}
TimeoutInputs == {-1, 0}
BackoffInputs == {<<"fixed", 5>>, <<"fixed", 0>>, <<"unknown", 5>>}
\* Arguments of delayUntil after getTime()/parseInt: NaN or an instant.
DelayInputs == {None} \cup {Some(t) : t \in -1..(MaxNow + 1)}
ProgressInputs == {None, Some(0), Some(42)}
SetInputs == {"failed"}

\* --------------------------------------------------------- constructor
NoOptions == [timestamp |-> None, stacktraces |-> None, delay |-> None,
              retries |-> None, timeout |-> None, backoff |-> None]

\* A payload value: undefined, a number, or the empty object {}.
Undefined == [type |-> "undefined", v |-> 0]
Number(n) == [type |-> "number", v |-> n]
EmptyObject == [type |-> "object", v |-> 0]

\* JavaScript truthiness of a payload value.
Truthy(x) == ~(x.type = "undefined" \/ (x.type = "number" /\ x.v = 0))

\* The constructor overwriting options.timestamp with the clock.
JobStampsAnew(jobId, data, options, t) ==
  [ id |-> jobId,
    progress |-> 0,
    data |-> IF Truthy(data) THEN data ELSE EmptyObject,
    options |-> [options EXCEPT
                   !.timestamp = Some(t),
                   !.stacktraces = IF IsSome(options.stacktraces)
                                   THEN options.stacktraces ELSE Some(<<>>)],
    status |-> "created",
    count |-> None ]

\* new Job(queue, jobId, data, options) at clock t
Job(jobId, data, options, t) ==
  [ id |-> jobId,
    progress |-> 0,
    data |-> IF Truthy(data) THEN data ELSE EmptyObject,
    options |-> [options EXCEPT
                   !.timestamp = IF TruthyNum(options.timestamp)
                                 THEN options.timestamp ELSE Some(t),
                   !.stacktraces = IF IsSome(options.stacktraces)
                                   THEN options.stacktraces ELSE Some(<<>>)],
    status |-> "created",
    count |-> None ]

\* ------------------------------------------------------- toData, fromData
\* JSON text is modelled by the members it holds: a function from the keys
\* present to their values.  JSON.stringify leaves out a member whose value is
\* undefined; JSON.parse gives undefined for a key the text does not hold.
OptionKeys == {"timestamp", "stacktraces", "delay", "retries", "timeout", "backoff"}

StringifyOptions(options) ==
  [k \in {x \in OptionKeys : IsSome(options[x])} |-> Get(options[k])]

ParseOptions(text) ==
  [k \in OptionKeys |-> IF k \in DOMAIN text THEN Some(text[k]) ELSE None]

\* JSON.stringify(data) for the object toData builds.
JSONStringify(data) ==
  [k \in {"options", "status"}
          \cup (IF data.data.type = "undefined" THEN {} ELSE {"data"})
          \cup (IF IsSome(data.count) THEN {"count"} ELSE {}) |->
     CASE k = "data" -> data.data
       [] k = "options" -> StringifyOptions(data.options)
       [] k = "status" -> data.status
       [] k = "count" -> Get(data.count)]

\* JSON.parse(data) for a record of the job table.
JSONParse(text) ==
  [ data |-> IF "data" \in DOMAIN text THEN text["data"] ELSE Undefined,
    options |-> ParseOptions(text["options"]),
    status |-> text["status"],
    count |-> IF "count" \in DOMAIN text THEN Some(text["count"]) ELSE None ]

\* toData leaving the count out of the record.
toDataDropsCount(this) ==
  JSONStringify([ data |-> this.data, options |-> this.options,
                  status |-> this.status, count |-> None ])

toData(this) ==
  JSONStringify([ data |-> this.data,
                  options |-> this.options,
                  status |-> this.status,
                  count |-> IF TruthyNum(this.count) THEN this.count ELSE None ])

\* Job.fromData(queue, jobId, data) at clock t
fromData(jobId, text, t) ==
  LET data == JSONParse(text)
      job0 == Job(jobId, data.data, data.options, t)
      job1 == [job0 EXCEPT !.status = data.status]
  IN IF TruthyNum(data.count) THEN [job1 EXCEPT !.count = data.count] ELSE job1

\* ------------------------------------------------------------- setters
\* The outcome of a synchronous call: whether it returned, and the object as
\* the call left it (for a throw: as it was when the exception was raised).
Return(this) == [ok |-> TRUE, this |-> this]
Throw(this) == [ok |-> FALSE, this |-> this]

\* setId without the test of the reserved prefix.
setIdUnchecked(this, id) == Return([this EXCEPT !.id = Some(id)])

setId(this, id) ==
  IF HasReservedPrefix(id) THEN Throw(this)
  ELSE Return([this EXCEPT !.id = Some(id)])

\* multiplier[interval.slice(-1)]
Multiplier(unit) ==
  CASE unit = "s" -> Some(1000)
    [] unit = "m" -> Some(60000)
    [] unit = "h" -> Some(3600000)
    [] unit = "d" -> Some(86400000)
    [] OTHER -> None

\* Number.isSafeInteger(x), for the integers and NaN the model draws.
IsSafeInteger(x) == IsSome(x)

\* parseInt(parseFloat(interval) * multiplier[unit]) for an integer mantissa
ParseInterval(interval) ==
  IF IsSome(interval.n)
  THEN Some(Get(interval.n) * Get(Multiplier(interval.unit)))
  ELSE None

\* The interval in milliseconds, or None where setInterval rejects its argument.
IntervalMs(interval) ==
  IF interval.isString /\ ~IsSome(Multiplier(interval.unit)) THEN None
  ELSE LET ms == IF interval.isString THEN ParseInterval(interval) ELSE interval.n
       IN IF ~IsSafeInteger(ms) \/ Get(ms) <= 0 THEN None ELSE ms

\* The recurring id and the delay setInterval ends with.
Recurring(this, ms, t) ==
  [this EXCEPT
     !.id = Some(<<"r", ":">> \o DecimalString(ms) \o <<":">> \o OrEmpty(this.id)),
     !.options.delay = IF TruthyNum(this.options.delay)
                       THEN this.options.delay ELSE Some(t + 1)]

\* setInterval rewriting id and delay before it tests the id for a colon.
setIntervalRewritesFirst(this, queueSettings, interval, t) ==
  IF ~IsSome(IntervalMs(interval)) THEN Throw(this)
  ELSE IF queueSettings.removeOnSuccess \/ queueSettings.removeOnFailure
  THEN Throw(this)
  ELSE IF HasColon(OrEmpty(this.id))
  THEN Throw(Recurring(this, Get(IntervalMs(interval)), t))
  ELSE Return(Recurring(this, Get(IntervalMs(interval)), t))

\* setInterval building the id from the interval alone.
setIntervalDropsId(this, queueSettings, interval, t) ==
  IF ~IsSome(IntervalMs(interval)) THEN Throw(this)
  ELSE IF queueSettings.removeOnSuccess \/ queueSettings.removeOnFailure
  THEN Throw(this)
  ELSE IF HasColon(OrEmpty(this.id)) THEN Throw(this)
  ELSE Return(Recurring([this EXCEPT !.id = None], Get(IntervalMs(interval)), t))

\* setInterval testing removeOnSuccess only.
setIntervalChecksSuccessOnly(this, queueSettings, interval, t) ==
  IF ~IsSome(IntervalMs(interval)) THEN Throw(this)
  ELSE IF queueSettings.removeOnSuccess THEN Throw(this)
  ELSE IF HasColon(OrEmpty(this.id)) THEN Throw(this)
  ELSE Return(Recurring(this, Get(IntervalMs(interval)), t))

\* setInterval leaving options.delay alone.
setIntervalNoDelay(this, queueSettings, interval, t) ==
  IF ~IsSome(IntervalMs(interval)) THEN Throw(this)
  ELSE IF queueSettings.removeOnSuccess \/ queueSettings.removeOnFailure
  THEN Throw(this)
  ELSE IF HasColon(OrEmpty(this.id)) THEN Throw(this)
  ELSE Return([Recurring(this, Get(IntervalMs(interval)), t)
                 EXCEPT !.options.delay = this.options.delay])

\* setInterval without the test of the id for a colon.
setIntervalNoColonCheck(this, queueSettings, interval, t) ==
  IF ~IsSome(IntervalMs(interval)) THEN Throw(this)
  ELSE IF queueSettings.removeOnSuccess \/ queueSettings.removeOnFailure
  THEN Throw(this)
  ELSE Return(Recurring(this, Get(IntervalMs(interval)), t))

setInterval(this, queueSettings, interval, t) ==
  IF interval.isString /\ ~IsSome(Multiplier(interval.unit)) THEN Throw(this)
  ELSE
    LET ms == IF interval.isString THEN ParseInterval(interval) ELSE interval.n
    IN
    IF ~IsSafeInteger(ms) \/ Get(ms) <= 0 THEN Throw(this)
    ELSE IF queueSettings.removeOnSuccess \/ queueSettings.removeOnFailure
    THEN Throw(this)
    ELSE
      LET this1 == [this EXCEPT !.id = Some(OrEmpty(this.id))]
      IN
      IF HasColon(Get(this1.id)) THEN Throw(this1)
      ELSE
        Return([this1 EXCEPT
          !.id = Some(<<"r", ":">> \o DecimalString(Get(ms)) \o <<":">>
                       \o Get(this1.id)),
          !.options.delay = IF TruthyNum(this1.options.delay)
                            THEN this1.options.delay ELSE Some(t + 1)])

retries(this, n) ==
  IF n < 0 THEN Throw(this)
  ELSE Return([this EXCEPT !.options.retries = Some(n)])

\* delayUntil accepting the instant of the call itself.
delayUntilAcceptsNow(this, timestamp, t) ==
  IF ~IsSome(timestamp) \/ Get(timestamp) < 0 THEN Throw(this)
  ELSE IF Get(timestamp) >= t
  THEN Return([this EXCEPT !.options.delay = timestamp])
  ELSE Return(this)

delayUntil(this, timestamp, t) ==
  IF ~IsSome(timestamp) \/ Get(timestamp) < 0 THEN Throw(this)
  ELSE IF Get(timestamp) > t
  THEN Return([this EXCEPT !.options.delay = timestamp])
  ELSE Return(this)

timeout(this, ms) ==
  IF ms < 0 THEN Throw(this)
  ELSE Return([this EXCEPT !.options.timeout = Some(ms)])

\* strategies.has(strategy): the registry of lib/backoff.js
Strategies == {"immediate", "fixed", "exponential"}

backoff(this, strategy, delay) ==
  IF strategy \notin Strategies THEN Throw(this)
  ELSE IF delay <= 0 THEN Throw(this)
  ELSE Return([this EXCEPT
         !.options.backoff = Some([strategy |-> strategy, delay |-> delay])])

\* ---------------------------------------------------------- the store
\* The store's keys for one queue.  jobs is the table id -> encoded job,
\* waiting a list (head first), delayed a sorted set as {<<id, instant>>},
\* failed a set, events the messages published on the events channel.
EmptyStore == [ id |-> 0, jobs |-> [k \in {} |-> 0], waiting |-> <<>>,
                delayed |-> {}, failed |-> {}, events |-> <<>> ]

HSet(table, k, v) == [x \in DOMAIN table \cup {k} |-> IF x = k THEN v ELSE table[x]]
HDel(table, k) == [x \in DOMAIN table \ {k} |-> table[x]]
LRem(list, k) == SelectSeq(list, LAMBDA x : x # k)

\* Steps (1) and the duplicate test of both enqueue scripts: the id the script
\* works with and the counter after it.
AssignId(st, candidate) ==
  IF candidate = <<>>
  THEN [jobId |-> DecimalString(st.id + 1), st |-> [st EXCEPT !.id = @ + 1]]
  ELSE [jobId |-> candidate, st |-> st]

\* addJob without the test for an existing record.
addJobOverwrites(st, candidate, data) ==
  LET a == AssignId(st, candidate)
  IN [st |-> [a.st EXCEPT !.jobs = HSet(@, a.jobId, data),
                          !.waiting = <<a.jobId>> \o @],
      reply |-> Some(a.jobId)]

\* addJob(idKey, jobsKey, waitingKey, candidateId, encodedJob) -> id | falsy
addJob(st, candidate, data) ==
  LET a == AssignId(st, candidate)
  IN IF a.jobId \in DOMAIN a.st.jobs
     THEN [st |-> a.st, reply |-> None]
     ELSE [st |-> [a.st EXCEPT !.jobs = HSet(@, a.jobId, data),
                               !.waiting = <<a.jobId>> \o @],
           reply |-> Some(a.jobId)]

\* addDelayedJob(idKey, jobsKey, delayedKey, earlierDelayedKey, candidateId,
\*               encodedJob, delayInstant) -> id | falsy
addDelayedJob(st, candidate, data, delay) ==
  LET a == AssignId(st, candidate)
  IN IF a.jobId \in DOMAIN a.st.jobs
     THEN [st |-> a.st, reply |-> None]
     ELSE [st |-> [a.st EXCEPT !.jobs = HSet(@, a.jobId, data),
                               !.delayed = @ \cup {<<a.jobId, delay>>}],
           reply |-> Some(a.jobId)]

\* retry() with the lpush left out of the transaction.
retrySremOnly(st, id) == [st EXCEPT !.failed = @ \ {id}]

\* client.multi().srem(failed, id).lpush(waiting, id).exec()
retryMulti(st, id) ==
  [st EXCEPT !.failed = @ \ {id}, !.waiting = <<id>> \o @]

\* queue.removeJob(id): the record and every membership of the id go.
removeJob(st, id) ==
  [st EXCEPT !.jobs = HDel(@, id), !.waiting = LRem(@, id),
             !.delayed = {d \in @ : d[1] # id}, !.failed = @ \ {id}]

\* publish delivering the payload twice.
publishTwice(st, payload) == [st EXCEPT !.events = Append(Append(@, payload), payload)]

\* client.publish(events, payload)
publish(st, payload) == [st EXCEPT !.events = Append(@, payload)]

\* client.sismember(key, id)
sismember(st, set, id) == IF set = "failed" /\ id \in st.failed THEN 1 ELSE 0

\* ------------------------------------------------ asynchronous methods
\* A request of job j in flight.  phase is "called" while the method waits for
\* queue._commandable(), "sent" once the command is on its way to the store,
\* and "replied" once the store has run it and the reply has not been handled.

\* save() reading this.delay, which no Job has, where it means options.delay.
saveReadsWrongField(this, queueSettings) ==
  [ op |-> "save", phase |-> "sent", script |-> "addJob",
    id |-> OrEmpty(this.id), data |-> toData(this),
    delay |-> None, timer |-> FALSE, reply |-> None ]

\* save(): the script and the arguments it is called with.
save(this, queueSettings) ==
  IF TruthyNum(this.options.delay)
  THEN [ op |-> "save", phase |-> "sent", script |-> "addDelayedJob",
         id |-> OrEmpty(this.id), data |-> toData(this),
         delay |-> this.options.delay,
         timer |-> queueSettings.activateDelayedJobs, reply |-> None ]
  ELSE [ op |-> "save", phase |-> "sent", script |-> "addJob",
         id |-> OrEmpty(this.id), data |-> toData(this),
         delay |-> None, timer |-> FALSE, reply |-> None ]

\* save() assigning this.id only when the job was created.
saveThenKeepsId(this, req, queueSettings, throws) ==
  LET jobId == req.reply
      notify == req.timer /\ TruthyStr(jobId)
  IN IF notify /\ throws
     THEN [ ok |-> FALSE, this |-> this, schedule |-> this.options.delay,
            register |-> None ]
     ELSE [ ok |-> TRUE,
            this |-> IF TruthyStr(jobId) THEN [this EXCEPT !.id = jobId] ELSE this,
            schedule |-> IF notify THEN this.options.delay ELSE None,
            register |-> IF TruthyStr(jobId) /\ queueSettings.storeJobs
                         THEN jobId ELSE None ]

\* save() notifying the timer after every delayed save, created or not.
saveThenSchedulesAlways(this, req, queueSettings, throws) ==
  LET jobId == req.reply
      notify == req.timer
  IN IF notify /\ throws
     THEN [ ok |-> FALSE, this |-> this, schedule |-> this.options.delay,
            register |-> None ]
     ELSE [ ok |-> TRUE,
            this |-> [this EXCEPT !.id = jobId],
            schedule |-> IF notify THEN this.options.delay ELSE None,
            register |-> IF TruthyStr(jobId) /\ queueSettings.storeJobs
                         THEN jobId ELSE None ]

\* The callbacks save() chains on the script's reply jobId.  throws: whether
\* queue._delayedTimer.schedule raises when it is called.
saveThen(this, req, queueSettings, throws) ==
  LET jobId == req.reply
      notify == req.timer /\ TruthyStr(jobId)
  IN IF notify /\ throws
     THEN [ ok |-> FALSE, this |-> this, schedule |-> this.options.delay,
            register |-> None ]
     ELSE [ ok |-> TRUE,
            this |-> [this EXCEPT !.id = jobId],
            schedule |-> IF notify THEN this.options.delay ELSE None,
            register |-> IF TruthyStr(jobId) /\ queueSettings.storeJobs
                         THEN jobId ELSE None ]

\* retry(), isInSet(set), reportProgress(value): the request before
\* queue._commandable() has resolved.
retry(this) == [ op |-> "retry", phase |-> "called", id |-> None, reply |-> None ]

isInSet(this, set) ==
  [ op |-> "isInSet", phase |-> "called", id |-> None, set |-> set, reply |-> None ]

progressRequest(value) ==
  [ op |-> "reportProgress", phase |-> "called", id |-> None, data |-> value,
    reply |-> None ]

\* reportProgress resetting progress when it rejects.
reportProgressResetsOnNull(this, progress) ==
  IF IsSome(progress)
  THEN [ ok |-> TRUE, this |-> [this EXCEPT !.progress = Get(progress)],
         promise |-> "pending", request |-> Some(progressRequest(progress)) ]
  ELSE [ ok |-> TRUE, this |-> [this EXCEPT !.progress = 0],
         promise |-> "rejected", request |-> None ]

\* reportProgress publishing before it tests the value.
reportProgressPublishesNull(this, progress) ==
  IF IsSome(progress)
  THEN [ ok |-> TRUE, this |-> [this EXCEPT !.progress = Get(progress)],
         promise |-> "pending", request |-> Some(progressRequest(progress)) ]
  ELSE [ ok |-> TRUE, this |-> this, promise |-> "rejected",
         request |-> Some(progressRequest(progress)) ]

\* reportProgress(progress).  The call always returns a promise (ok): one that
\* is already rejected, or one pending on the publish request it has issued.
reportProgress(this, progress) ==
  IF IsSome(progress)
  THEN [ ok |-> TRUE, this |-> [this EXCEPT !.progress = Get(progress)],
         promise |-> "pending", request |-> Some(progressRequest(progress)) ]
  ELSE [ ok |-> TRUE, this |-> this, promise |-> "rejected", request |-> None ]

\* remove(): queue.removeJob(this.id)
remove(this) == [ op |-> "remove", phase |-> "sent", id |-> this.id, reply |-> None ]

\* What the store does with a request, and its reply.
Execute(st, req) ==
  CASE req.op = "save" /\ req.script = "addJob" -> addJob(st, req.id, req.data)
    [] req.op = "save" /\ req.script = "addDelayedJob" ->
         addDelayedJob(st, req.id, req.data, Get(req.delay))
    [] req.op = "retry" -> [st |-> retryMulti(st, Get(req.id)), reply |-> None]
    [] req.op = "remove" -> [st |-> removeJob(st, Get(req.id)), reply |-> None]
    [] req.op = "reportProgress" ->
         [st |-> publish(st, [id |-> req.id, event |-> "progress", data |-> req.data]),
          reply |-> None]
    [] req.op = "isInSet" ->
         [st |-> st, reply |-> Some(DecimalString(sismember(st, req.set, Get(req.id))))]

\* ------------------------------------------------------------- Init
\* The client holds MaxJobs Job objects, each constructed with no id or with a
\* plain id, over an empty store.
InitialIds == {None, Some(<<"a">>)}

\* queue.settings: every choice of storeJobs and activateDelayedJobs with the
\* auto-remove settings off, and each auto-remove setting on.
SettingsInputs ==
  { [removeOnSuccess |-> FALSE, removeOnFailure |-> FALSE,
     activateDelayedJobs |-> a, storeJobs |-> s] : a, s \in BOOLEAN }
  \cup
  { [removeOnSuccess |-> TRUE, removeOnFailure |-> FALSE,
     activateDelayedJobs |-> FALSE, storeJobs |-> TRUE],
    [removeOnSuccess |-> FALSE, removeOnFailure |-> TRUE,
     activateDelayedJobs |-> FALSE, storeJobs |-> TRUE] }

Init ==
  /\ now = 1
  /\ settings \in SettingsInputs
  /\ \E ids \in [JobIds -> InitialIds] :
       job = [j \in JobIds |-> Job(ids[j], Number(j), NoOptions, 1)]
  /\ pending = [j \in JobIds |-> <<>>]
  /\ store = EmptyStore
  /\ queueJobs = [k \in {} |-> 0]
  /\ scheduled = {}
  /\ outcome = [j \in JobIds |-> "none"]
  /\ calls = 0

\* --------------------------------------------------- synchronous calls
\* A public method of job j is called and leaves the object as res.this.
Call(j, res) ==
  /\ calls < MaxCalls
  /\ calls' = calls + 1
  /\ job' = [job EXCEPT ![j] = res.this]

\* A method of job j is called that puts request req in flight.
Send(j, req) ==
  /\ calls < MaxCalls
  /\ Len(pending[j]) < MaxPending
  /\ calls' = calls + 1
  /\ pending' = [pending EXCEPT ![j] = Append(@, req)]

\* pending[j] without its i-th request
Without(reqs, i) == SubSeq(reqs, 1, i - 1) \o SubSeq(reqs, i + 1, Len(reqs))

SetId(j, id) ==
  /\ Call(j, setId(job[j], id))
  /\ UNCHANGED <<now, settings, pending, store, queueJobs, scheduled, outcome>>

SetInterval(j, interval) ==
  /\ Call(j, setInterval(job[j], settings, interval, now))
  /\ UNCHANGED <<now, settings, pending, store, queueJobs, scheduled, outcome>>

Retries(j, n) ==
  /\ Call(j, retries(job[j], n))
  /\ UNCHANGED <<now, settings, pending, store, queueJobs, scheduled, outcome>>

DelayUntil(j, timestamp) ==
  /\ Call(j, delayUntil(job[j], timestamp, now))
  /\ UNCHANGED <<now, settings, pending, store, queueJobs, scheduled, outcome>>

Timeout(j, ms) ==
  /\ Call(j, timeout(job[j], ms))
  /\ UNCHANGED <<now, settings, pending, store, queueJobs, scheduled, outcome>>

Backoff(j, strategy, delay) ==
  /\ Call(j, backoff(job[j], strategy, delay))
  /\ UNCHANGED <<now, settings, pending, store, queueJobs, scheduled, outcome>>

ReportProgress(j, progress) ==
  LET res == reportProgress(job[j], progress)
  IN /\ Call(j, res)
     /\ IF IsSome(res.request)
        THEN /\ Len(pending[j]) < MaxPending
             /\ pending' = [pending EXCEPT ![j] = Append(@, Get(res.request))]
        ELSE UNCHANGED pending
     /\ outcome' = IF res.promise = "rejected"
                   THEN [outcome EXCEPT ![j] = "progressRejected"] ELSE outcome
     /\ UNCHANGED <<now, settings, store, queueJobs, scheduled>>

Save(j) ==
  /\ Send(j, save(job[j], settings))
  /\ UNCHANGED <<now, settings, job, store, queueJobs, scheduled, outcome>>

\* The reply of the enqueue script reaches save()'s callbacks.
SaveThen(j, i, throws) ==
  LET req == pending[j][i]
      res == saveThen(job[j], req, settings, throws)
  IN /\ req.op = "save" /\ req.phase = "replied"
     /\ job' = [job EXCEPT ![j] = res.this]
     /\ scheduled' = IF IsSome(res.schedule)
                     THEN scheduled \cup {Get(res.schedule)} ELSE scheduled
     /\ queueJobs' = IF IsSome(res.register)
                     THEN HSet(queueJobs, Get(res.register), j) ELSE queueJobs
     /\ pending' = [pending EXCEPT ![j] = Without(@, i)]
     /\ outcome' = [outcome EXCEPT ![j] =
                      IF ~res.ok THEN "rejected"
                      ELSE IF TruthyStr(req.reply) THEN "created" ELSE "notCreated"]
     /\ UNCHANGED <<now, settings, store, calls>>

Retry(j) ==
  /\ TruthyStr(job[j].id)
  /\ Send(j, retry(job[j]))
  /\ UNCHANGED <<now, settings, job, store, queueJobs, scheduled, outcome>>

Remove(j) ==
  /\ TruthyStr(job[j].id)
  /\ Send(j, remove(job[j]))
  /\ UNCHANGED <<now, settings, job, store, queueJobs, scheduled, outcome>>

IsInSet(j, set) ==
  /\ TruthyStr(job[j].id)
  /\ Send(j, isInSet(job[j], set))
  /\ UNCHANGED <<now, settings, job, store, queueJobs, scheduled, outcome>>

\* The callback of queue._commandable() in retry, reportProgress and isInSet:
\* it reads this.id and sends the command.  A notification is published
\* whatever the id is; the other commands need an id to be sent.
Commandable(j, i) ==
  /\ pending[j][i].phase = "called"
  /\ pending[j][i].op = "reportProgress" \/ TruthyStr(job[j].id)
  /\ pending' = [pending EXCEPT ![j][i].phase = "sent", ![j][i].id = job[j].id]
  /\ UNCHANGED <<now, settings, job, store, queueJobs, scheduled, outcome, calls>>

\* The store runs one request that has reached it, as one indivisible step.
StoreExec(j, i) ==
  LET r == Execute(store, pending[j][i])
  IN /\ pending[j][i].phase = "sent"
     /\ store' = r.st
     /\ pending' = [pending EXCEPT ![j][i].phase = "replied", ![j][i].reply = r.reply]
     /\ UNCHANGED <<now, settings, job, queueJobs, scheduled, outcome, calls>>

\* The promise of retry, remove, reportProgress or isInSet resolves.
Resolve(j, i) ==
  /\ pending[j][i].op # "save" /\ pending[j][i].phase = "replied"
  /\ pending' = [pending EXCEPT ![j] = Without(@, i)]
  /\ UNCHANGED <<now, settings, job, store, queueJobs, scheduled, outcome, calls>>

\* ------------------------------------------------------- environment
\* A worker takes the id at the tail of waiting and the job fails.
WorkerFail ==
  /\ store.waiting # <<>>
  /\ store' = [store EXCEPT
       !.waiting = SubSeq(@, 1, Len(@) - 1),
       !.failed = @ \cup {store.waiting[Len(store.waiting)]}]
  /\ UNCHANGED <<now, settings, job, pending, queueJobs, scheduled, outcome, calls>>

\* Time passes.
Tick ==
  /\ now < MaxNow
  /\ now' = now + 1
  /\ UNCHANGED <<settings, job, pending, store, queueJobs, scheduled, outcome, calls>>

\* One step of the system in which the jobs in J are the ones whose methods
\* are called.
Step(J) ==
  \/ \E j \in J, id \in IdInputs : SetId(j, id)
  \/ \E j \in J, interval \in IntervalInputs : SetInterval(j, interval)
  \/ \E j \in J, n \in RetriesInputs : Retries(j, n)
  \/ \E j \in J, timestamp \in DelayInputs : DelayUntil(j, timestamp)
  \/ \E j \in J, ms \in TimeoutInputs : Timeout(j, ms)
  \/ \E j \in J, b \in BackoffInputs : Backoff(j, b[1], b[2])
  \/ \E j \in J, progress \in ProgressInputs : ReportProgress(j, progress)
  \/ \E j \in J : Save(j)
  \/ \E j \in J, i \in 1..MaxPending, throws \in BOOLEAN :
       i <= Len(pending[j]) /\ SaveThen(j, i, throws)
  \/ \E j \in J : Retry(j)
  \/ \E j \in J : Remove(j)
  \/ \E j \in J, set \in SetInputs : IsInSet(j, set)
  \/ \E j \in J, i \in 1..MaxPending : i <= Len(pending[j]) /\ Commandable(j, i)
  \/ \E j \in J, i \in 1..MaxPending : i <= Len(pending[j]) /\ StoreExec(j, i)
  \/ \E j \in J, i \in 1..MaxPending : i <= Len(pending[j]) /\ Resolve(j, i)
  \/ WorkerFail
  \/ Tick

\* Every job is in use.
Next == Step(JobIds)

Spec == Init /\ [][Next]_vars

\* One job is in use; the others are constructed and left alone.
InitJob == Init /\ \A j \in JobIds \ {1} : job[j].id = None

NextJob == Step({1})

SpecJob == InitJob /\ [][NextJob]_vars

\* Clients that only configure and save their jobs: no retry, removal, progress
\* report or worker touches the store.
NextSaves ==
  \/ \E j \in JobIds, id \in IdInputs : SetId(j, id)
  \/ \E j \in JobIds, interval \in IntervalInputs : SetInterval(j, interval)
  \/ \E j \in JobIds, timestamp \in DelayInputs : DelayUntil(j, timestamp)
  \/ \E j \in JobIds : Save(j)
  \/ \E j \in JobIds, i \in 1..MaxPending : i <= Len(pending[j]) /\ StoreExec(j, i)
  \/ \E j \in JobIds, i \in 1..MaxPending, throws \in BOOLEAN :
       i <= Len(pending[j]) /\ SaveThen(j, i, throws)
  \/ Tick

SpecSaves == Init /\ [][NextSaves]_vars

\* One job is in use, on a store where another producer has already saved a
\* job under the id 'a'.
InitShared ==
  /\ now = 1
  /\ settings \in SettingsInputs
  /\ \E first \in InitialIds :
       job = [j \in JobIds |-> Job(IF j = 1 THEN first ELSE None,
                                   Number(j), NoOptions, 1)]
  /\ pending = [j \in JobIds |-> <<>>]
  /\ store = addJob(EmptyStore, <<"a">>,
                    toData(Job(Some(<<"a">>), EmptyObject, NoOptions, 1))).st
  /\ queueJobs = [k \in {} |-> 0]
  /\ scheduled = {}
  /\ outcome = [j \in JobIds |-> "none"]
  /\ calls = 0

SpecShared == InitShared /\ [][NextJob]_vars

\* Payloads a producer constructs a job with.
DataInputs == {Undefined, Number(0), Number(7), EmptyObject}

\* Records of the job table as a worker leaves them: the job's record with the
\* status it reached, and the count of its retries once it has been retried.
StoredInputs ==
  { JSONStringify([ data |-> Job(None, d, NoOptions, 1).data,
                    options |-> Job(None, d, NoOptions, 1).options,
                    status |-> st, count |-> c ]) :
      d \in DataInputs, st \in {"created", "retrying"}, c \in {None, Some(1)} }

\* One job is in use, constructed by a producer or decoded from a record of the
\* job table, on a queue that keeps its Job objects.
InitCodec ==
  /\ now = 1
  /\ settings \in {q \in SettingsInputs :
                     /\ ~q.removeOnSuccess /\ ~q.removeOnFailure
                     /\ q.storeJobs /\ ~q.activateDelayedJobs}
  /\ \E first \in {Job(Some(<<"a">>), d, NoOptions, 1) : d \in DataInputs}
                  \cup {fromData(Some(<<"a">>), text, 1) : text \in StoredInputs} :
       job = [j \in JobIds |-> IF j = 1 THEN first
                                ELSE Job(None, Number(j), NoOptions, 1)]
  /\ pending = [j \in JobIds |-> <<>>]
  /\ store = EmptyStore
  /\ queueJobs = [k \in {} |-> 0]
  /\ scheduled = {}
  /\ outcome = [j \in JobIds |-> "none"]
  /\ calls = 0

SpecCodec == InitCodec /\ [][NextJob]_vars

\* ------------------------------------------------------------ properties
\* The requests of job j, by position.
Requests(j) == 1..Len(pending[j])

\* The id is of the recurring form r:<positive integer>:<suffix without ':'>.
IsRecurringId(s) ==
  /\ HasReservedPrefix(s)
  /\ \E p \in 4..Len(s) :
       /\ s[p] = ":"
       /\ \A q \in 3..(p - 1) : s[q] \in Digits
       /\ s[3] # "0"
       /\ \A q \in (p + 1)..Len(s) : s[q] # ":"

\* Occurrences of id k in a list.
Count(list, k) == Cardinality({x \in 1..Len(list) : list[x] = k})

\* C1: a call to save() puts exactly one enqueue request in flight: addJob
\* when options.delay is not set, addDelayedJob when it is set.
C1_SaveIssuesOneEnqueue ==
  [][\A j \in JobIds :
       Save(j) =>
         /\ Len(pending'[j]) = Len(pending[j]) + 1
         /\ \A k \in JobIds \ {j} : pending'[k] = pending[k]
         /\ store' = store
         /\ LET req == pending'[j][Len(pending'[j])]
            IN /\ req.op = "save" /\ req.phase = "sent"
               /\ IsSome(job[j].options.delay) => req.script = "addDelayedJob"
               /\ ~IsSome(job[j].options.delay) => req.script = "addJob"]_vars

\* The delayed save of a job whose delay is set is in flight, not yet run by
\* the store.
C1_Witness ==
  \E j \in JobIds :
    /\ pending[j] # <<>> /\ pending[j][1].op = "save"
    /\ pending[j][1].phase = "sent"
    /\ pending[j][1].script = "addDelayedJob" /\ IsSome(job[j].options.delay)
    /\ store = EmptyStore

C3_TimerFailureNeverFailsSave ==
  [][\A j \in JobIds : \A i \in Requests(j) : \A throws \in BOOLEAN :
       (pending[j][i].op = "save" /\ pending[j][i].script = "addDelayedJob"
          /\ TruthyStr(pending[j][i].reply) /\ SaveThen(j, i, throws))
       => (outcome'[j] = "created" /\ job'[j].id = pending[j][i].reply)]_vars

\* C4: a setter call that fails leaves the job's id and options as they were,
\* and retries(n) fails for negative n.
C4_FailedSetterChangesNothing ==
  \A j \in JobIds :
    LET Kept(res) == ~res.ok =>
          (res.this.id = job[j].id /\ res.this.options = job[j].options)
    IN /\ \A id \in IdInputs : Kept(setId(job[j], id))
       /\ \A interval \in IntervalInputs :
            Kept(setInterval(job[j], settings, interval, now))
       /\ \A n \in RetriesInputs :
            Kept(retries(job[j], n)) /\ (n < 0 => ~retries(job[j], n).ok)
       /\ \A timestamp \in DelayInputs : Kept(delayUntil(job[j], timestamp, now))
       /\ \A ms \in TimeoutInputs : Kept(timeout(job[j], ms))
       /\ \A b \in BackoffInputs : Kept(backoff(job[j], b[1], b[2]))

\* A configured job on which setInterval fails at its last check, the colon in
\* the id, and on which retries(-1) fails with options.retries set.
C4_Witness ==
  \E j \in JobIds :
    /\ TruthyStr(job[j].id) /\ HasColon(Get(job[j].id))
    /\ IsSome(job[j].options.retries)
    /\ ~settings.removeOnSuccess /\ ~settings.removeOnFailure
    /\ \E interval \in IntervalInputs :
         /\ interval.n = Some(5) /\ ~interval.isString
         /\ ~setInterval(job[j], settings, interval, now).ok

\* String s ends with string e.
EndsWith(s, e) ==
  Len(s) >= Len(e) /\ SubSeq(s, Len(s) - Len(e) + 1, Len(s)) = e

\* Job j's id changes in this step.
IdChanges(j) == job'[j].id # job[j].id

\* C5 as stated: once the id is non-empty only setId changes it, and setId
\* fails on an id with the reserved prefix.
C5_OnlySetIdChangesId ==
  [][\A j \in JobIds :
       /\ (TruthyStr(job[j].id) /\ IdChanges(j))
            => \E id \in IdInputs : SetId(j, id)
       /\ \A id \in IdInputs :
            (HasReservedPrefix(id) /\ SetId(j, id)) => job'[j] = job[j]]_vars

\* C5 as the code has it: once the id is non-empty it changes only in setId, in
\* a successful setInterval (to r:<interval>:<id>) and when save() completes (to
\* the store's reply, null when the job was not created); and setId fails on
\* an id with the reserved prefix.
C5_IdChangesOnlyBySetIdSetIntervalSave ==
  [][\A j \in JobIds :
       /\ (TruthyStr(job[j].id) /\ IdChanges(j))
            => \/ \E id \in IdInputs : SetId(j, id)
               \/ \E interval \in IntervalInputs :
                    /\ SetInterval(j, interval)
                    /\ setInterval(job[j], settings, interval, now).ok
                    /\ IsRecurringId(Get(job'[j].id))
                    /\ EndsWith(Get(job'[j].id), <<":">> \o Get(job[j].id))
               \/ \E i \in Requests(j), throws \in BOOLEAN :
                    SaveThen(j, i, throws) /\ job'[j].id = pending[j][i].reply
       /\ \A id \in IdInputs :
            (HasReservedPrefix(id) /\ SetId(j, id)) => job'[j] = job[j]]_vars

\* A job that kept its recurring id through a save() that created it.
C5_Witness ==
  \E j \in JobIds :
    /\ outcome[j] = "created"
    /\ TruthyStr(job[j].id) /\ IsRecurringId(Get(job[j].id))
    /\ Get(job[j].id) \in DOMAIN store.jobs

\* C6: the store runs retry()'s srem and lpush as one step, after which the id
\* is not in failed and is the head of waiting; in no step does an id leave
\* failed without being pushed (unless the job is removed); and no step of a
\* retry changes the job's count or status.
C6_RetryMovesAtomically ==
  [][
      /\ \A j \in JobIds : \A i \in Requests(j) :
           (pending[j][i].op = "retry" /\ StoreExec(j, i)) =>
             LET k == Get(pending[j][i].id)
             IN /\ k \notin store'.failed
                /\ store'.waiting = <<k>> \o store.waiting
                /\ store'.failed = store.failed \ {k}
                /\ job' = job
      /\ \A k \in store.failed \ store'.failed :
           \/ store'.waiting = <<k>> \o store.waiting
           \/ \E j \in JobIds : \E i \in Requests(j) :
                pending[j][i].op = "remove" /\ StoreExec(j, i)
      /\ \A j \in JobIds :
           job'[j].count = job[j].count /\ job'[j].status = job[j].status
    ]_vars

\* A retry has been executed on the only job of the store, which had failed:
\* its id is the whole waiting list again and failed is empty.
C6_Witness ==
  \E j \in JobIds :
    /\ pending[j] # <<>> /\ pending[j][1].op = "retry"
    /\ pending[j][1].phase = "replied"
    /\ store.waiting = <<Get(pending[j][1].id)>>
    /\ store.failed = {}
    /\ DOMAIN store.jobs = {Get(pending[j][1].id)}

\* The save requests in flight, as <<job, position>>.
SaveRequests ==
  {<<j, i>> \in JobIds \X (1..MaxPending) :
     i <= Len(pending[j]) /\ pending[j][i].op = "save"}

\* Two jobs carrying the same explicit id k were saved concurrently, the store
\* has run both requests, and these are the only saves made so far.
BothSaved(j1, j2, k) ==
  /\ j1 # j2
  /\ SaveRequests = {<<j1, 1>>, <<j2, 1>>}
  /\ \A j \in JobIds : outcome[j] = "none"
  /\ pending[j1][1].phase = "replied" /\ pending[j2][1].phase = "replied"
  /\ pending[j1][1].id = k /\ pending[j2][1].id = k /\ k # <<>>

\* C7: of two concurrent saves of distinct jobs with the same explicit id,
\* exactly one creates the record and gets the id, the other gets the
\* not-created reply; the record is the winner's, and the id is in waiting or
\* delayed exactly once.
C7_ConcurrentSavesOneWinner ==
  \A j1, j2 \in JobIds : \A k \in IdInputs :
    BothSaved(j1, j2, k) =>
      \E w \in {j1, j2} :
        LET l == IF w = j1 THEN j2 ELSE j1
        IN /\ pending[w][1].reply = Some(k)
           /\ pending[l][1].reply = None
           /\ DOMAIN store.jobs = {k}
           /\ store.jobs[k] = pending[w][1].data
           /\ Count(store.waiting, k)
                + Cardinality({d \in store.delayed : d[1] = k}) = 1

\* Both saves of id 'a' have been run by the store, and the first job's lost.
C7_Witness ==
  \E j1, j2 \in JobIds :
    /\ j1 < j2
    /\ BothSaved(j1, j2, <<"a">>)
    /\ pending[j1][1].reply = None

\* C8: a job with a recurring id belongs to a queue with neither auto-remove
\* setting on, and setInterval fails without touching id or delay when either
\* is on.
C8_RecurringExcludesAutoRemove ==
  \A j \in JobIds :
    /\ (TruthyStr(job[j].id) /\ HasReservedPrefix(Get(job[j].id)))
         => (~settings.removeOnSuccess /\ ~settings.removeOnFailure)
    /\ (settings.removeOnSuccess \/ settings.removeOnFailure)
         => \A interval \in IntervalInputs :
              LET res == setInterval(job[j], settings, interval, now)
              IN ~res.ok /\ res.this = job[j]

\* Under removeOnFailure: a configured job with an id setInterval would accept.
C8_Witness ==
  /\ settings.removeOnFailure
  /\ calls >= 1
  /\ \E j \in JobIds :
       /\ job[j].id = Some(<<"a">>)
       /\ IsSome(job[j].options.delay)

\* C9: a successful setInterval leaves options.delay set (now+1 if it was not
\* set, its previous value otherwise); no later step unsets it; and save() of a
\* job whose delay is set issues the delayed enqueue.
C9_IntervalForcesDelayedSave ==
  [][\A j \in JobIds :
       /\ \A interval \in IntervalInputs :
            (SetInterval(j, interval)
               /\ setInterval(job[j], settings, interval, now).ok)
            => job'[j].options.delay =
                 IF IsSome(job[j].options.delay) THEN job[j].options.delay
                 ELSE Some(now + 1)
       /\ IsSome(job[j].options.delay) =>
            job'[j].options.delay = job[j].options.delay
            \/ \E timestamp \in DelayInputs :
                 DelayUntil(j, timestamp) /\ job'[j].options.delay = timestamp
       /\ (IsSome(job[j].options.delay) /\ Save(j)) =>
            pending'[j][Len(pending'[j])].script = "addDelayedJob"]_vars

\* A recurring job whose delay setInterval set at time 1 has its delayed save
\* in flight.
C9_Witness ==
  \E j \in JobIds :
    /\ pending[j] # <<>> /\ pending[j][1].op = "save"
    /\ pending[j][1].script = "addDelayedJob"
    /\ IsRecurringId(pending[j][1].id)
    /\ pending[j][1].delay = Some(2)

\* C10: an id is null, plain, or exactly r:<positive integer>:<suffix> with no
\* ':' in the suffix; setInterval fails on an id that is already recurring.
C10_IdWellFormed ==
  \A j \in JobIds :
    /\ IsSome(job[j].id) =>
         \/ ~HasReservedPrefix(Get(job[j].id))
         \/ IsRecurringId(Get(job[j].id))
    /\ (IsSome(job[j].id) /\ HasReservedPrefix(Get(job[j].id))) =>
         \A interval \in IntervalInputs :
           ~setInterval(job[j], settings, interval, now).ok

\* A job made recurring with the interval given as the string '1s'.
C10_Witness ==
  \E j \in JobIds :
    job[j].id = Some(<<"r", ":", "1", "0", "0", "0", ":", "a">>)

\* fromData(toData(job)) under the job's own id.
Decoded(j) == fromData(job[j].id, toData(job[j]), now)

\* C11: decoding the encoded record of a job yields a job with the same data,
\* options, status and count, and when the count is unset it is absent from the
\* record and from the decoded job.
C11_RoundTripKeepsRecordFields ==
  \A j \in JobIds :
    /\ Decoded(j).data = job[j].data
    /\ Decoded(j).options = job[j].options
    /\ Decoded(j).status = job[j].status
    /\ Decoded(j).count = job[j].count
    /\ ~IsSome(job[j].count) =>
         ("count" \notin DOMAIN toData(job[j]) /\ ~IsSome(Decoded(j).count))

\* A retried job, decoded from the job table and then configured by setters.
C11_Witness ==
  \E j \in JobIds :
    /\ job[j].count = Some(1) /\ job[j].status = "retrying"
    /\ IsSome(job[j].options.retries) /\ IsSome(job[j].options.backoff)
    /\ toData(job[j])["count"] = 1

\* C12 as stated: decoding the encoded record yields a job equal to the
\* original in every field, and encoding it again yields the same record.
C12_RoundTripKeepsEveryField ==
  \A j \in JobIds :
    /\ Decoded(j) = job[j]
    /\ toData(Decoded(j)) = toData(job[j])

\* C12 as the code has it: the record holds data, options, status and count,
\* so decoding under the same id yields a job equal to the original in id,
\* data, options, status and count whose progress is 0 whatever the original
\* reported; encoding the decoded job again yields the same record.
C12_RoundTripResetsProgress ==
  \A j \in JobIds :
    /\ Decoded(j) = [job[j] EXCEPT !.progress = 0]
    /\ toData(Decoded(j)) = toData(job[j])

\* A job that has reported progress 42 and has been saved under its id.
C12_Witness ==
  \E j \in JobIds :
    /\ job[j].progress = 42
    /\ outcome[j] = "created" /\ TruthyStr(job[j].id)
    /\ Decoded(j).progress = 0

\* C13: reportProgress with a null or absent value returns a rejected promise
\* (it does not throw), leaves the job as it was, puts no request in flight and
\* publishes nothing.
C13_NullProgressRejects ==
  [][\A j \in JobIds :
       /\ LET res == reportProgress(job[j], None)
          IN /\ res.ok /\ res.promise = "rejected"
             /\ res.this = job[j] /\ res.request = None
       /\ ReportProgress(j, None) =>
            /\ job' = job /\ pending' = pending /\ store' = store
            /\ outcome'[j] = "progressRejected"]_vars

\* A job that reported 42 and then had a null report rejected: its progress is
\* still 42.
C13_Witness ==
  \E j \in JobIds :
    outcome[j] = "progressRejected" /\ job[j].progress = 42

\* Job j's request i is a progress notification.
IsProgress(j, i) == pending[j][i].op = "reportProgress"

\* C14: progress starts at 0 and changes only in a reportProgress call with a
\* non-null value, to that value, whatever becomes of the publication; such a
\* call issues one publish request, which the store runs once, appending one
\* notification with the job's id, event 'progress' and the value; nothing else
\* publishes.
C14_ProgressIsLastReported ==
  /\ \A j \in JobIds : job[j].progress = 0
  /\ [][\A j \in JobIds :
          /\ \A v \in ProgressInputs \ {None} :
               ReportProgress(j, v) =>
                 /\ job'[j].progress = Get(v)
                 /\ pending'[j] = Append(pending[j], progressRequest(v))
          /\ job'[j].progress # job[j].progress =>
               \E v \in ProgressInputs \ {None} : ReportProgress(j, v)
          /\ \A i \in Requests(j) :
               /\ (IsProgress(j, i) /\ Commandable(j, i)) =>
                    pending'[j][i].id = job[j].id
               /\ (IsProgress(j, i) /\ StoreExec(j, i)) =>
                    /\ store'.events =
                         Append(store.events, [id |-> pending[j][i].id,
                                               event |-> "progress",
                                               data |-> pending[j][i].data])
                    /\ pending'[j][i].phase = "replied"
          /\ store'.events # store.events =>
               \E k \in JobIds : \E i \in Requests(k) :
                 IsProgress(k, i) /\ StoreExec(k, i)]_vars

\* A job reported 42 and then 0: its progress is 0 and both notifications
\* were published under its id, in that order.
C14_Witness ==
  \E j \in JobIds :
    /\ job[j].progress = 0
    /\ store.events = << [id |-> Some(<<"a">>), event |-> "progress", data |-> Some(42)],
                         [id |-> Some(<<"a">>), event |-> "progress", data |-> Some(0)] >>

\* C15: delayUntil fails on NaN and on a negative instant; sets options.delay
\* to an instant later than the clock; and for any other instant returns and
\* leaves the job, its delay included, as it was.
C15_DelayUntilOutcomes ==
  [][\A j \in JobIds : \A timestamp \in DelayInputs :
       LET res == delayUntil(job[j], timestamp, now)
       IN /\ (~IsSome(timestamp) \/ Get(timestamp) < 0) =>
               (~res.ok /\ res.this = job[j])
          /\ (IsSome(timestamp) /\ Get(timestamp) > now) =>
               (res.ok /\ res.this = [job[j] EXCEPT !.options.delay = timestamp])
          /\ (IsSome(timestamp) /\ Get(timestamp) >= 0 /\ Get(timestamp) <= now) =>
               (res.ok /\ res.this = job[j])
          /\ DelayUntil(j, timestamp) => job'[j] = res.this]_vars

\* A delay of 2 was set at time 1; at time 2 a further call has been made and
\* delayUntil(2), no longer in the future, would leave the delay as it is.
C15_Witness ==
  \E j \in JobIds :
    /\ now = 2 /\ calls = 2
    /\ job[j].options.delay = Some(2)
    /\ ~HasReservedPrefix(OrEmpty(job[j].id))
    /\ delayUntil(job[j], Some(2), now) = Return(job[j])

\* A configuration setter of job j is called in this step.
SetterCalled(j) ==
  \/ \E id \in IdInputs : SetId(j, id)
  \/ \E interval \in IntervalInputs : SetInterval(j, interval)
  \/ \E n \in RetriesInputs : Retries(j, n)
  \/ \E timestamp \in DelayInputs : DelayUntil(j, timestamp)
  \/ \E ms \in TimeoutInputs : Timeout(j, ms)
  \/ \E b \in BackoffInputs : Backoff(j, b[1], b[2])

\* C16: a setter call, failing or not, and a rejected reportProgress leave the
\* store as it is and put no request in flight; apart from the worker, the
\* store changes only when it runs a request of save, retry, remove or a
\* non-null reportProgress.
C16_ValidationBeforeStore ==
  [][/\ \A j \in JobIds :
          (SetterCalled(j) \/ ReportProgress(j, None)) =>
            (store' = store /\ pending' = pending)
     /\ store' # store =>
          \/ WorkerFail
          \/ \E j \in JobIds : \E i \in Requests(j) :
               /\ StoreExec(j, i)
               /\ pending[j][i].op \in {"save", "retry", "remove", "reportProgress"}
               /\ pending[j][i].op = "reportProgress" => IsSome(pending[j][i].data)
    ]_vars

\* Two calls have been made, retries(3) and a rejected reportProgress, and the
\* store is as it was created, with no request in flight.
C16_Witness ==
  \E j \in JobIds :
    /\ calls = 2 /\ outcome[j] = "progressRejected"
    /\ job[j].options.retries = Some(3)
    /\ store = EmptyStore /\ \A k \in JobIds : pending[k] = <<>>

\* C17: when the reply of an enqueue reaches save()'s callbacks, the timer's
\* schedule is called, with the job's delay, if and only if the save was a
\* delayed one, activateDelayedJobs is on and the reply is a non-falsy id; no
\* other step calls it.
C17_TimerNotifiedIffDelayedCreated ==
  [][/\ \A j \in JobIds : \A i \in Requests(j) : \A throws \in BOOLEAN :
          SaveThen(j, i, throws) =>
            LET req == pending[j][i]
                res == saveThen(job[j], req, settings, throws)
            IN /\ IsSome(res.schedule) <=>
                    /\ req.script = "addDelayedJob"
                    /\ settings.activateDelayedJobs
                    /\ TruthyStr(req.reply)
               /\ IsSome(res.schedule) =>
                    /\ res.schedule = job[j].options.delay
                    /\ scheduled' = scheduled \cup {Get(job[j].options.delay)}
               /\ ~IsSome(res.schedule) => scheduled' = scheduled
     /\ scheduled' # scheduled =>
          \E j \in JobIds : \E i \in Requests(j) : \E throws \in BOOLEAN :
            SaveThen(j, i, throws)
    ]_vars

\* A delayed save created the job with the timer active: the timer has been
\* notified of the job's delay and of nothing else.
C17_Witness ==
  \E j \in JobIds :
    /\ settings.activateDelayedJobs /\ outcome[j] = "created"
    /\ IsSome(job[j].options.delay)
    /\ scheduled = {Get(job[j].options.delay)}

\* C18: when the reply of an enqueue reaches save()'s callbacks, the job is
\* put in queue.jobs under the replied id if and only if the reply is a
\* non-falsy id and storeJobs is on; otherwise queue.jobs is unchanged.
C18_RegisteredIffCreatedAndStoreJobs ==
  [][\A j \in JobIds : \A i \in Requests(j) : \A throws \in BOOLEAN :
       SaveThen(j, i, throws) =>
         queueJobs' = IF TruthyStr(pending[j][i].reply) /\ settings.storeJobs
                      THEN HSet(queueJobs, Get(pending[j][i].reply), j)
                      ELSE queueJobs]_vars

\* C19: every entry of queue.jobs maps its key to a job whose id is the key.
C19_RegistryKeysAreIds ==
  \A k \in DOMAIN queueJobs : job[queueJobs[k]].id = Some(k)

\* C20: after every step each id occurs at most once in waiting and is not in
\* waiting and in failed at once, and the store's run of a retry whose id is
\* not in failed leaves waiting as it was.
C20_WaitingAndFailedConsistent ==
  [][/\ \A k \in DOMAIN store'.jobs :
          /\ Count(store'.waiting, k) <= 1
          /\ ~(Count(store'.waiting, k) > 0 /\ k \in store'.failed)
     /\ \A j \in JobIds : \A i \in Requests(j) :
          (pending[j][i].op = "retry" /\ StoreExec(j, i)
             /\ Get(pending[j][i].id) \notin store.failed)
          => store'.waiting = store.waiting
    ]_vars

====
